---- MODULE Spec2Model ----
(***************************************************************************)
(* The parquet viewer: the bubbletea Model of part_000 (view state         *)
(* machine, row window, reader/file handles), the background commands it   *)
(* issues (findParquetFiles, loadParquetData, loadMoreRows), their result  *)
(* messages, and the parquet files the commands read.                      *)
(***************************************************************************)
EXTENDS Integers, Sequences, FiniteSets, Bags, TLC

\* ------------------------------------------------------------------ bounds
\* Model.maxRows, the window bound W.  main() sets 32 (part_000:581); the
\* model runs the same code with a small window.
maxRows == 2
\* How many times the program starts a file open (Init or enter).
MaxOpens == 2
\* How many commands and undelivered messages are outstanding at once.
MaxInflight == 2
\* Names in the working directory that end in .parquet.
MaxFiles == 1
\* textinput.CharLimit; main() sets 256 (part_000:566).
CharLimit == 1

\* The row counts of the files in reach: fewer rows than the window, as
\* many, one more, and more than twice as many.
Totals == {1, maxRows, maxRows + 1, 2 * maxRows + 1, 2 * maxRows + 2}

\* ------------------------------------------------------------------ values
InputView == "InputView"
FileSelectView == "FileSelectView"
TableView == "TableView"

NoError == "nil"
\* The error values, one per function that builds them with fmt.Errorf.
LoadError == "loadParquetData failed"
MoreError == "loadMoreRows failed"
NilHandle == 0
NoRow == [src |-> 0, idx |-> 0]
NoPath == <<>>

Letters == <<"f", "g", "h", "i">>
FileName(i) == <<Letters[i]>>
CliPath == <<"q">>

\* os.ReadDir returns the entries sorted by name; the directory holds the
\* first n names, for some n.
Listings == {[i \in 1..n |-> FileName(i)] : n \in 0..MaxFiles}

\* The column names loadParquetData derives from the sample record.
SampleColumns == <<"name", "age">>

Keys == {"ctrl+d", "q", "esc", "enter", "up", "down", "end", "backspace"}

Min(a, b) == IF a < b THEN a ELSE b
Max(a, b) == IF a > b THEN a ELSE b

VARIABLES
    status,            \* "running", "quit" (tea.Quit taken), "crashed" (panic / nil model)
    viewState, textInput, filePath, error, columns, rows, isLoading,
    parquetFiles, selectedFile, currentRowOffset, totalRows,
    parquetReader, parquetFile,
    table,             \* bubbles table.Model: focus, cursor, rows
    handles,           \* the files opened so far: file handle and reader state
    opens,             \* loadParquetData commands issued so far
    cmds,              \* commands returned by Update, not yet run
    msgs,              \* result messages sent, not yet consumed
    decoder            \* the row conversion at work: record, columns, cells

modelVars == <<viewState, textInput, filePath, error, columns, rows, isLoading,
               parquetFiles, selectedFile, currentRowOffset, totalRows,
               parquetReader, parquetFile, table>>
vars == <<status, modelVars, handles, opens, cmds, msgs, decoder>>

\* ---------------------------------------------------------------- commands
FindCmd == [type |-> "find", path |-> NoPath, reader |-> NilHandle]
LoadCmd(path) == [type |-> "load", path |-> path, reader |-> NilHandle]
\* loadMoreRows(m) closes over a copy of the model: its reader pointer.
MoreCmd(reader) == [type |-> "more", path |-> NoPath, reader |-> reader]

FilesMsg(files) ==
    [type |-> "files", files |-> files, err |-> NoError, columns |-> <<>>,
     rows |-> <<>>, totalRows |-> 0, handle |-> NilHandle, newRow |-> NoRow]
DataErrMsg(err) ==
    [type |-> "data", files |-> <<>>, err |-> err, columns |-> <<>>,
     rows |-> <<>>, totalRows |-> 0, handle |-> NilHandle, newRow |-> NoRow]
DataMsg(cols, rws, total, h) ==
    [type |-> "data", files |-> <<>>, err |-> NoError, columns |-> cols,
     rows |-> rws, totalRows |-> total, handle |-> h, newRow |-> NoRow]
MoreErrMsg(err) ==
    [type |-> "more", files |-> <<>>, err |-> err, columns |-> <<>>,
     rows |-> <<>>, totalRows |-> 0, handle |-> NilHandle, newRow |-> NoRow]
MoreMsg(row) ==
    [type |-> "more", files |-> <<>>, err |-> NoError, columns |-> <<>>,
     rows |-> <<>>, totalRows |-> 0, handle |-> NilHandle, newRow |-> row]

Inflight == BagCardinality(cmds) + BagCardinality(msgs)
Issue(c) == cmds (+) SetToBag({c})

\* ------------------------------------------------------- the row conversion
\* The records ReadByNumber hands over: a map from column names to values,
\* a struct (fields in declaration order, each with its name, its parquet
\* tag split at the commas, and its value; the fields are exported), or a
\* value of any other kind.
MaxFields == 2
MaxColumns == 2
ColumnNames == {"A", "B"}
FieldNames == <<"A", "B", "C", "D">>

NamePart(rest) == [prefix |-> "name=", rest |-> rest]
OtherPart == [prefix |-> "type=", rest |-> "INT64"]
\* Tag.Get("parquet") is "" for a field without the tag.
NoTag == <<>>
Tags == {NoTag, <<OtherPart>>, <<NamePart("A")>>, <<NamePart("B")>>,
         <<NamePart(" A")>>, <<OtherPart, NamePart("B")>>,
         <<NamePart("A"), NamePart("B")>>}

HasPrefixName(part) == part.prefix = "name="
TrimSpace(str) == IF str = " A" THEN "A" ELSE str
Sprintf(v) == ToString(v)

MapRecord(keys) == [kind |-> "map", keys |-> keys, fields |-> <<>>]
StructRecord(tags) ==
    [kind |-> "struct", keys |-> {},
     fields |-> [i \in 1..Len(tags) |-> [name |-> FieldNames[i], tag |-> tags[i], value |-> i]]]
OtherRecord == [kind |-> "other", keys |-> {}, fields |-> <<>>]
MapValue(key) == CHOOSE i \in 1..Len(FieldNames) : FieldNames[i] = key

TagLists == UNION {[1..n -> Tags] : n \in 0..MaxFields}
Records == {MapRecord(keys) : keys \in SUBSET ColumnNames}
           \cup {StructRecord(tags) : tags \in TagLists}
           \cup {OtherRecord}
ColumnLists == UNION {[1..n -> ColumnNames] : n \in 0..MaxColumns}

\* The column name a tagged field declares: the first part with the name=
\* prefix, trimmed; none when no part has the prefix.
RECURSIVE TagColumn(_, _)
TagColumn(tag, p) ==
    IF p > Len(tag) THEN <<>>
    ELSE IF HasPrefixName(tag[p]) THEN <<TrimSpace(tag[p].rest)>>
    ELSE TagColumn(tag, p + 1)

\* The columns of a struct sample, field by field.
RECURSIVE StructColumns(_, _)
StructColumns(fields, i) ==
    IF i > Len(fields) THEN <<>>
    ELSE (IF fields[i].tag # NoTag THEN TagColumn(fields[i].tag, 1)
          ELSE <<fields[i].name>>) \o StructColumns(fields, i + 1)

\* The column lists loadParquetData can derive from a sample record; the
\* keys of a map come in any order.
ExtractColumns(sample) ==
    IF sample.kind = "map"
    THEN {c \in ColumnLists : Len(c) = Cardinality(sample.keys)
                              /\ {c[i] : i \in 1..Len(c)} = sample.keys}
    ELSE IF sample.kind = "struct" THEN {StructColumns(sample.fields, 1)}
    ELSE {<<>>}

\* Some part of the tag has the name= prefix and, trimmed, equals col.
TagMatches(tag, col) ==
    \E p \in 1..Len(tag) : HasPrefixName(tag[p]) /\ TrimSpace(tag[p].rest) = col

\* The loop over the fields for one column, from field i on.  A tagged
\* field that matches appends its cell and the loop goes on with the next
\* field (the break leaves the loop over the parts); an untagged field
\* that matches appends its cell and ends the loop.
RECURSIVE FieldLoop(_, _, _, _)
FieldLoop(fields, col, i, found) ==
    IF i > Len(fields) THEN (IF found THEN <<>> ELSE <<"<nil>">>)
    ELSE IF fields[i].tag # NoTag
    THEN IF TagMatches(fields[i].tag, col)
         THEN <<Sprintf(fields[i].value)>> \o FieldLoop(fields, col, i + 1, TRUE)
         ELSE FieldLoop(fields, col, i + 1, found)
    ELSE IF fields[i].name = col THEN <<Sprintf(fields[i].value)>>
    ELSE FieldLoop(fields, col, i + 1, found)

RECURSIVE StructRow(_, _, _)
StructRow(fields, cols, c) ==
    IF c > Len(cols) THEN <<>>
    ELSE FieldLoop(fields, cols[c], 1, FALSE) \o StructRow(fields, cols, c + 1)

\* The conversion of one record to a row of cells.
ConvertRow(data, cols) ==
    IF data.kind = "map"
    THEN [c \in 1..Len(cols) |->
            IF cols[c] \in data.keys THEN Sprintf(MapValue(cols[c])) ELSE "<nil>"]
    ELSE IF data.kind = "struct" THEN StructRow(data.fields, cols, 1)
    ELSE [c \in 1..Len(cols) |-> "<unsupported>"]

\* No conversion at work.
IdleDecoder == [record |-> OtherRecord, columns |-> <<>>, row |-> <<>>, done |-> FALSE]

\* ------------------------------------------------------------------- Init
NewTable == [focus |-> FALSE, cursor |-> 0, rows |-> <<>>]

Init ==
    /\ status = "running"
    /\ filePath \in {NoPath, CliPath}
    /\ viewState = IF filePath # NoPath THEN TableView ELSE InputView
    /\ isLoading = (filePath # NoPath)
    /\ textInput = <<>>
    /\ error = NoError
    /\ columns = <<>>
    /\ rows = <<>>
    /\ parquetFiles = <<>>
    /\ selectedFile = 0
    /\ currentRowOffset = 0
    /\ totalRows = 0
    /\ parquetReader = NilHandle
    /\ parquetFile = NilHandle
    /\ table = NewTable
    /\ handles = <<>>
    /\ opens = IF filePath # NoPath THEN 1 ELSE 0
    /\ cmds = SetToBag({IF filePath # NoPath THEN LoadCmd(filePath) ELSE FindCmd})
    /\ msgs = EmptyBag
    /\ decoder = IdleDecoder

\* ------------------------------------------------- the parquet file reader
\* A handle is one opened file: its file handle (open until Close), its
\* reader (live until ReadStop), the row count of its footer, the reader's
\* forward-only position, and the number of ReadByNumber(1) calls the
\* reader has been asked to serve (counted up to one past the row count).
OpenedHandle(total) ==
    [open |-> TRUE, live |-> FALSE, total |-> total, pos |-> 0, reads |-> 0]
NewParquetReader(hd) == [hd EXCEPT !.live = TRUE, !.pos = 0, !.reads = 0]
\* A call that fails leaves the position where it was.
CountRead(hd) == [hd EXCEPT !.reads = Min(@ + 1, hd.total + 1)]
ReadStop(hd) == [hd EXCEPT !.live = FALSE]
Close(hd) == [hd EXCEPT !.open = FALSE]

\* pr.ReadByNumber(1) without error: the row at the reader's position, or
\* no row once the position has reached the end of the file.
ReadByNumber(h, hd) ==
    IF hd.pos < hd.total THEN [src |-> h, idx |-> hd.pos] ELSE NoRow
Advance(hd) ==
    CountRead(IF hd.pos < hd.total THEN [hd EXCEPT !.pos = @ + 1] ELSE hd)

\* The initial fill: num reads from position 0, an empty read is skipped.
RECURSIVE ReadInitialRows(_, _, _)
ReadInitialRows(h, hd, n) ==
    IF n = 0 THEN <<>>
    ELSE LET r == ReadByNumber(h, hd)
         IN  IF r = NoRow THEN ReadInitialRows(h, Advance(hd), n - 1)
             ELSE <<r>> \o ReadInitialRows(h, Advance(hd), n - 1)

\* The initial fill without the cap at maxRows.
InitialNumUncapped(total) == total
\* num: the number of rows of the initial fill.
InitialNum(total) == IF total > maxRows THEN maxRows ELSE total

\* ------------------------------------------------------ bubbles components
RuneKeys == {"q"}
TextInputUpdate(v, key) ==
    IF key \in RuneKeys THEN (IF Len(v) < CharLimit THEN Append(v, key) ELSE v)
    ELSE IF key = "backspace" /\ Len(v) > 0 THEN SubSeq(v, 1, Len(v) - 1)
    ELSE v

clamp(v, low, high) == Min(Max(v, low), high)
MoveUp(t, n) == [t EXCEPT !.cursor = clamp(t.cursor - n, 0, Len(t.rows) - 1)]
MoveDown(t, n) == [t EXCEPT !.cursor = clamp(t.cursor + n, 0, Len(t.rows) - 1)]
\* A SetCursor that leaves the cursor where it is.
SetCursorNowhere(t, n) == t
SetCursor(t, n) == [t EXCEPT !.cursor = clamp(n, 0, Len(t.rows) - 1)]
SetRows(t, r) == [t EXCEPT !.rows = r]
TableNew(r) == [focus |-> TRUE, cursor |-> 0, rows |-> r]
TableUpdate(t, key) ==
    IF ~t.focus THEN t
    ELSE IF key = "up" THEN MoveUp(t, 1)
    ELSE IF key = "down" THEN MoveDown(t, 1)
    ELSE IF key = "end" THEN MoveDown(t, Len(t.rows))
    ELSE t

\* ------------------------------------------------------------ Model.Update
\* The condition under which the table view asks for one more row.
NeedMoreRows(oldCursor, newCursor) ==
    /\ newCursor > oldCursor
    /\ newCursor = Len(rows) - 1
    /\ currentRowOffset + Len(rows) < totalRows

\* The code after the switch, for a key that falls out of it: the text
\* input takes it in the input view, the table in the table view.
AfterSwitch(key) ==
    LET t == IF viewState = TableView THEN TableUpdate(table, key) ELSE table
    IN  /\ textInput' = IF viewState = InputView
                        THEN TextInputUpdate(textInput, key) ELSE textInput
        /\ table' = t
        /\ cmds' = IF viewState = TableView /\ NeedMoreRows(table.cursor, t.cursor)
                   THEN Issue(MoreCmd(parquetReader)) ELSE cmds

\* ctrl+d returns tea.Quit; its message is the next the event loop takes,
\* and the program ends without another Update.  The commands and the
\* messages in flight end with the process.
KeyCtrlD ==
    /\ status' = "quit"
    /\ cmds' = EmptyBag
    /\ msgs' = EmptyBag
    /\ UNCHANGED <<modelVars, handles, opens>>

\* q / esc in the table view: stop the reader, close the file, go back to
\* the file list and scan again.  A failing Close returns a nil model.
ExitTable(closeErr) ==
    LET stopped == IF parquetReader # NilHandle
                   THEN [handles EXCEPT ![parquetReader] = ReadStop(@)] ELSE handles
        closed  == IF parquetFile # NilHandle
                   THEN [stopped EXCEPT ![parquetFile] = Close(@)] ELSE stopped
    IN  /\ handles' = closed
        /\ IF parquetFile # NilHandle /\ closeErr
           THEN /\ status' = "crashed"
                /\ UNCHANGED <<modelVars, cmds>>
           ELSE /\ parquetReader' = NilHandle
                /\ parquetFile' = NilHandle
                /\ viewState' = FileSelectView
                /\ cmds' = Issue(FindCmd)
                /\ UNCHANGED <<status, textInput, filePath, error, columns, rows,
                               isLoading, parquetFiles, selectedFile,
                               currentRowOffset, totalRows, table>>
        /\ UNCHANGED <<opens, msgs>>

KeyExit(key) ==
    /\ key \in {"q", "esc"}
    /\ IF viewState = TableView
       THEN \E closeErr \in (IF parquetFile # NilHandle THEN BOOLEAN ELSE {FALSE}) :
                ExitTable(closeErr)
       ELSE /\ AfterSwitch(key)
            /\ UNCHANGED <<status, viewState, filePath, error, columns, rows,
                           isLoading, parquetFiles, selectedFile, currentRowOffset,
                           totalRows, parquetReader, parquetFile, handles, opens, msgs>>

\* enter: open the typed path (input view) or the selected file (file list).
StartLoad(path) ==
    /\ opens < MaxOpens
    /\ filePath' = path
    /\ isLoading' = TRUE
    /\ viewState' = TableView
    /\ cmds' = Issue(LoadCmd(path))
    /\ opens' = opens + 1
    /\ UNCHANGED <<status, textInput, error, columns, rows, parquetFiles,
                   selectedFile, currentRowOffset, totalRows, parquetReader,
                   parquetFile, table, handles, msgs>>

KeyEnter ==
    IF viewState = InputView /\ textInput # <<>>
    THEN StartLoad(textInput)
    ELSE IF viewState = FileSelectView /\ Len(parquetFiles) > 0
    THEN IF selectedFile + 1 \in DOMAIN parquetFiles
         THEN StartLoad(parquetFiles[selectedFile + 1])
         ELSE \* index out of range: the Update panics
              /\ status' = "crashed"
              /\ UNCHANGED <<modelVars, handles, opens, cmds, msgs>>
    ELSE /\ AfterSwitch("enter")
         /\ UNCHANGED <<status, viewState, filePath, error, columns, rows,
                        isLoading, parquetFiles, selectedFile, currentRowOffset,
                        totalRows, parquetReader, parquetFile, handles, opens, msgs>>

SelectUp(sel) == IF sel - 1 < 0 THEN Len(parquetFiles) - 1 ELSE sel - 1
SelectDown(sel) == IF sel + 1 >= Len(parquetFiles) THEN 0 ELSE sel + 1

KeyUpDown(key) ==
    /\ key \in {"up", "down"}
    /\ selectedFile' = IF viewState # FileSelectView THEN selectedFile
                       ELSE IF key = "up" THEN SelectUp(selectedFile)
                       ELSE SelectDown(selectedFile)
    /\ AfterSwitch(key)
    /\ UNCHANGED <<status, viewState, filePath, error, columns, rows,
                   isLoading, parquetFiles, currentRowOffset, totalRows,
                   parquetReader, parquetFile, handles, opens, msgs>>

KeyOther(key) ==
    /\ key \in {"end", "backspace"}
    /\ AfterSwitch(key)
    /\ UNCHANGED <<status, viewState, filePath, error, columns, rows,
                   isLoading, parquetFiles, selectedFile, currentRowOffset,
                   totalRows, parquetReader, parquetFile, handles, opens, msgs>>

KeyMsg(key) ==
    /\ status = "running"
    /\ CASE key = "ctrl+d" -> KeyCtrlD
         [] key \in {"q", "esc"} -> KeyExit(key)
         [] key = "enter" -> KeyEnter
         [] key \in {"up", "down"} -> KeyUpDown(key)
         [] OTHER -> KeyOther(key)
    /\ BagCardinality(cmds') + BagCardinality(msgs') <= MaxInflight
    /\ UNCHANGED decoder

\* --------------------------------------------- Model.Update: result messages
\* parquetFilesMsg
RecvFiles(m) ==
    /\ m.type = "files"
    /\ parquetFiles' = m.files
    /\ viewState' = IF Len(m.files) > 0 THEN FileSelectView ELSE viewState
    /\ UNCHANGED <<textInput, filePath, error, columns, rows, isLoading, selectedFile,
                   currentRowOffset, totalRows, parquetReader, parquetFile, table>>

\* parquetDataMsg
RecvData(m) ==
    /\ m.type = "data"
    /\ isLoading' = FALSE
    /\ IF m.err # NoError
       THEN /\ error' = m.err
            /\ UNCHANGED <<columns, rows, totalRows, parquetReader, parquetFile,
                           currentRowOffset, table>>
       ELSE /\ columns' = m.columns
            /\ rows' = m.rows
            /\ totalRows' = m.totalRows
            /\ parquetReader' = m.handle
            /\ parquetFile' = m.handle
            /\ currentRowOffset' = Len(m.rows)
            /\ table' = TableNew(m.rows)
            /\ UNCHANGED error
    /\ UNCHANGED <<viewState, textInput, filePath, parquetFiles, selectedFile>>

\* moreRowsMsg; m.rows[1:] of an empty window panics.
RecvMore(m) ==
    /\ m.type = "more"
    /\ IF m.err # NoError
       THEN /\ error' = m.err
            /\ UNCHANGED <<status, rows, currentRowOffset, table>>
       ELSE IF rows = <<>>
       THEN /\ status' = "crashed"
            /\ UNCHANGED <<error, rows, currentRowOffset, table>>
       ELSE LET newRows == Append(Tail(rows), m.newRow)
            IN  /\ rows' = newRows
                /\ currentRowOffset' = currentRowOffset + 1
                /\ table' = SetCursor(SetRows(table, newRows), Len(newRows) - 1)
                /\ UNCHANGED <<status, error>>
    /\ UNCHANGED <<viewState, textInput, filePath, columns, isLoading, parquetFiles,
                   selectedFile, totalRows, parquetReader, parquetFile>>

\* The event loop takes one result message and runs Update on it.
Recv ==
    /\ status = "running"
    /\ \E m \in BagToSet(msgs) :
        /\ msgs' = msgs (-) SetToBag({m})
        /\ CASE m.type = "data" -> RecvData(m) /\ UNCHANGED status
             [] OTHER -> RecvMore(m)
    /\ UNCHANGED <<handles, opens, cmds, decoder>>

\* --------------------------------------------------- the background commands
Send(c, out) ==
    /\ cmds' = cmds (-) SetToBag({c})
    /\ msgs' = IF out = {} THEN msgs ELSE msgs (+) SetToBag(out)

\* findParquetFiles: whatever the directory holds now.  Nothing else reads
\* the listing, so the command's run and the Update of its parquetFilesMsg
\* are one step.
RunFind ==
    /\ status = "running"
    /\ \E c \in BagToSet(cmds) :
        /\ c.type = "find"
        /\ cmds' = cmds (-) SetToBag({c})
        /\ \E files \in Listings : RecvFiles(FilesMsg(files))
    /\ UNCHANGED <<status, handles, opens, msgs, decoder>>

\* The stages at which loadParquetData can fail, in the order of the code.
LoadStages == {"open", "reader", "sample", "reset", "columns", "row", "ok"}

\* The handle as loadParquetData leaves it, having failed at `stage`
\* (after the file was opened) or having succeeded.
LoadHandle(stage, total) ==
    LET fr == OpenedHandle(total)
    IN  CASE stage = "reader"  -> Close(fr)
          [] stage = "sample"  -> Close(ReadStop(NewParquetReader(fr)))
          [] stage = "reset"   -> Close(ReadStop(NewParquetReader(fr)))
          [] stage = "columns" -> Close(ReadStop(NewParquetReader(ReadStop(NewParquetReader(fr)))))
          [] stage = "row"     -> Close(ReadStop(NewParquetReader(ReadStop(NewParquetReader(fr)))))
          [] OTHER             ->
                LET pr == NewParquetReader(ReadStop(NewParquetReader(fr)))
                IN  [pr EXCEPT !.pos = InitialNum(total), !.reads = InitialNum(total)]

\* The message loadParquetData returns; none (a nil message) when Close
\* fails on an error path.
LoadResult(stage, closeErr, total, h) ==
    IF stage = "open" THEN {DataErrMsg(LoadError)}
    ELSE IF stage = "ok"
    THEN {DataMsg(SampleColumns,
                  ReadInitialRows(h, NewParquetReader(OpenedHandle(total)), InitialNum(total)),
                  total, h)}
    ELSE IF closeErr THEN {}
    ELSE {DataErrMsg(LoadError)}

RunLoad ==
    \E c \in BagToSet(cmds) :
        /\ c.type = "load"
        /\ IF c.path = NoPath
           THEN /\ Send(c, {DataErrMsg(LoadError)})
                /\ UNCHANGED handles
           ELSE \E stage \in LoadStages, total \in {0} \cup Totals, closeErr \in BOOLEAN :
                /\ stage \in {"open", "reader", "sample", "reset"} => total = 0
                /\ stage \in {"columns"} => total = 0
                /\ stage \in {"row", "ok"} => total >= 1
                /\ stage \in {"open", "ok"} => ~closeErr
                /\ handles' = IF stage = "open" THEN handles
                              ELSE Append(handles, LoadHandle(stage, total))
                /\ Send(c, LoadResult(stage, closeErr, total, Len(handles) + 1))

\* loadMoreRows: one read on the reader the command captured.
RunMore ==
    \E c \in BagToSet(cmds) :
        /\ c.type = "more"
        /\ IF c.reader = NilHandle
           THEN /\ Send(c, {MoreErrMsg(MoreError)})
                /\ UNCHANGED handles
           ELSE \E readErr \in BOOLEAN :
                LET hd == handles[c.reader]
                    r  == ReadByNumber(c.reader, hd)
                IN  /\ handles' = [handles EXCEPT ![c.reader] =
                                        IF readErr THEN CountRead(hd) ELSE Advance(hd)]
                    /\ IF readErr \/ r = NoRow
                       THEN Send(c, {MoreErrMsg(MoreError)})
                       ELSE Send(c, {MoreMsg(r)})

RunCmd ==
    /\ status = "running"
    /\ (RunLoad \/ RunMore)
    /\ UNCHANGED <<status, modelVars, opens, decoder>>

Next ==
    \/ \E key \in Keys : KeyMsg(key)
    \/ Recv
    \/ RunFind
    \/ RunCmd

Spec == Init /\ [][Next]_vars

\* The row conversion on its own: any record against any column list, and
\* against the columns derived from the record itself.
DecodeInit ==
    /\ status = "running"
    /\ viewState = TableView
    /\ isLoading = FALSE
    /\ textInput = <<>>
    /\ filePath = CliPath
    /\ error = NoError
    /\ columns = <<>>
    /\ rows = <<>>
    /\ parquetFiles = <<>>
    /\ selectedFile = 0
    /\ currentRowOffset = 0
    /\ totalRows = 0
    /\ parquetReader = NilHandle
    /\ parquetFile = NilHandle
    /\ table = NewTable
    /\ handles = <<>>
    /\ opens = 0
    /\ cmds = EmptyBag
    /\ msgs = EmptyBag
    /\ \E data \in Records : \E cols \in ColumnLists \cup ExtractColumns(data) :
           decoder = [record |-> data, columns |-> cols, row |-> <<>>, done |-> FALSE]

Convert ==
    /\ ~decoder.done
    /\ decoder' = [decoder EXCEPT !.row = ConvertRow(decoder.record, decoder.columns),
                                  !.done = TRUE]
    /\ UNCHANGED <<status, modelVars, handles, opens, cmds, msgs>>

DecodeNext == Convert

DecodeSpec == DecodeInit /\ [][DecodeNext]_vars

\* ------------------------------------------------------------------ properties
\* The Update of a parquetDataMsg that carries no error.
OpenSucceeds(m) ==
    /\ status = "running"
    /\ m.type = "data"
    /\ m.err = NoError
    /\ msgs' = msgs (-) SetToBag({m})
    /\ RecvData(m)

\* C1: right after the result of a successful open of a file of T rows is
\* consumed, the window holds min(maxRows, T) rows and the row offset is 0.
C1_OpenFillsWindowAtOffsetZero ==
    [][\A m \in BagToSet(msgs) :
          OpenSucceeds(m) =>
              /\ Len(rows') = Min(maxRows, m.totalRows)
              /\ currentRowOffset' = 0]_vars

\* C2: the row offset plus the number of rows in the window never exceeds
\* the row count of the file.
C2_WindowWithinFile == currentRowOffset + Len(rows) <= totalRows

\* C3: the window is a run of consecutive rows of one file, and its i-th
\* row (from 0) is the file's row number currentRowOffset + i.
C3_RowsAreSourceRowsFromOffset ==
    \A i \in 1..Len(rows) :
        rows[i] = [src |-> rows[1].src, idx |-> currentRowOffset + i - 1]

\* loadMoreRows is issued in this step.
IssuesMore ==
    \E h \in 0..MaxOpens : CopiesIn(MoreCmd(h), cmds') > CopiesIn(MoreCmd(h), cmds)

\* C4: no advance is issued once offset + window = T, none at all for a file
\* that fits the window, and a reader is never asked for more rows than its
\* file has (initial fill plus advances).
C4_NoReadBeyondFile ==
    [][/\ IssuesMore => /\ currentRowOffset + Len(rows) # totalRows
                        /\ totalRows > maxRows
       /\ \A h \in DOMAIN handles' : handles'[h].reads <= handles'[h].total]_vars

\* C5: the window never holds more than maxRows rows.
C5_WindowBounded == Len(rows) <= maxRows /\ Len(table.rows) <= maxRows

\* A full window of a file larger than it, after an advance was applied.
C5_Witness ==
    /\ Len(rows) = maxRows
    /\ totalRows > maxRows
    /\ currentRowOffset > maxRows
    /\ rows[Len(rows)].idx >= maxRows

\* An exit key taken in the table view.
ExitInTable == viewState = TableView /\ (KeyMsg("q") \/ KeyMsg("esc"))

\* C6: q / esc in the table view always stops the reader, closes the file,
\* moves to the file list and issues a new scan.
C6_ExitAlwaysReturnsToFileSelect ==
    [][ExitInTable =>
          /\ viewState' = FileSelectView
          /\ cmds' = Issue(FindCmd)
          /\ parquetReader # NilHandle => ~handles'[parquetReader].live
          /\ parquetFile # NilHandle => ~handles'[parquetFile].open]_vars

\* C7: ctrl+d ends the program from every view, and the open file, if the
\* model holds one, has been released by then.
C7_QuitReleasesDataSource ==
    [][KeyMsg("ctrl+d") =>
          /\ status' = "quit"
          /\ parquetReader # NilHandle => ~handles'[parquetReader].live
          /\ parquetFile # NilHandle => ~handles'[parquetFile].open]_vars

\* C8: the file list view with no candidates behaves like the input view:
\* a text key edits the path, enter with a path typed opens it.
C8_EmptyFileSelectActsLikeInput ==
    (/\ status = "running"
     /\ viewState = FileSelectView
     /\ parquetFiles = <<>>
     /\ opens < MaxOpens
     /\ Inflight < MaxInflight)
    => /\ textInput # <<>> =>
            ENABLED (KeyMsg("enter") /\ viewState' = TableView /\ isLoading'
                     /\ cmds' = Issue(LoadCmd(textInput)))
       /\ textInput # <<>> =>
            ENABLED (KeyMsg("backspace") /\ Len(textInput') < Len(textInput))

\* The Update of a moreRowsMsg that carries an error.
AdvanceFails(m) ==
    /\ status = "running"
    /\ m.type = "more"
    /\ m.err # NoError
    /\ msgs' = msgs (-) SetToBag({m})
    /\ RecvMore(m)

\* C9: a failed advance leaves the window and the offset as they were and
\* records the error; with the error recorded, q / esc still lead to the
\* file list and ctrl+d still ends the program.
C9_FailedAdvanceKeepsWindowAndExits ==
    [][/\ \A m \in BagToSet(msgs) :
             AdvanceFails(m) => /\ UNCHANGED <<rows, currentRowOffset>>
                                /\ error' = m.err
                                /\ status' = "running"
       /\ (error = MoreError /\ ExitInTable) => viewState' = FileSelectView
       /\ (error = MoreError /\ KeyMsg("ctrl+d")) => status' = "quit"]_vars

\* C10: a result consumed outside the table view changes nothing of the
\* window, the columns, the row count or the held handles.
C10_StaleResultIgnored ==
    [][(viewState # TableView /\ Recv) =>
          UNCHANGED <<rows, currentRowOffset, columns, totalRows,
                      parquetReader, parquetFile>>]_vars

\* The open and advance commands not yet run, and their results not yet
\* consumed (the scan's result is consumed in the step that runs it).
TasksInFlight == Inflight - CopiesIn(FindCmd, cmds)

\* An open or an advance is issued in this step.
IssuesTask ==
    \E c \in BagToSet(cmds') : c.type \in {"load", "more"} /\ CopiesIn(c, cmds') > CopiesIn(c, cmds)

\* C11: at most one background task (open or advance) is in flight for the
\* table view: a key taken in the table view issues no task while another
\* is not yet run or its result not yet consumed.
C11_OneTaskInFlight ==
    [][(viewState = TableView /\ IssuesTask) => TasksInFlight = 0]_vars

\* C12: the row conversion returns exactly one cell per column, for every
\* record and every column list.
C12_DecoderTotal ==
    decoder.done => Len(decoder.row) = Len(decoder.columns)

\* A key taken in the table view, loading finished, moves the cursor down
\* onto the last row of the window while the reader has rows left to read.
ForwardOntoLastRow ==
    /\ viewState = TableView
    /\ ~isLoading
    /\ \E key \in Keys : KeyMsg(key)
    /\ table'.cursor > table.cursor
    /\ table'.cursor = Len(rows) - 1
    /\ parquetReader # NilHandle
    /\ handles[parquetReader].pos < handles[parquetReader].total

\* C13: a move down onto the last row of the window, with rows of the file
\* still unread, issues an advance (so every row of a file larger than the
\* window can be scrolled into it).
C13_ForwardMoveIssuesAdvance ==
    [][ForwardOntoLastRow => IssuesMore]_vars

\* The Update of a moreRowsMsg that carries a row.
AdvanceSucceeds(m) ==
    /\ status = "running"
    /\ m.type = "more"
    /\ m.err = NoError
    /\ msgs' = msgs (-) SetToBag({m})
    /\ RecvMore(m)

\* C14: consuming a successful advance drops the first row of the window,
\* appends the new row, keeps the window's length, adds one to the offset,
\* leaves totalRows, columns and the view state alone, and puts the cursor
\* on the last row of the window.
C14_AdvanceFrame ==
    [][\A m \in BagToSet(msgs) :
          AdvanceSucceeds(m) =>
              /\ status' = "running"
              /\ rows' = Append(SubSeq(rows, 2, Len(rows)), m.newRow)
              /\ Len(rows') = Len(rows)
              /\ currentRowOffset' = currentRowOffset + 1
              /\ UNCHANGED <<totalRows, columns, viewState>>
              /\ table'.rows = rows'
              /\ table'.cursor = Len(rows') - 1]_vars

\* An advance was applied: the window ends with a row from beyond the
\* initial fill, shown by the table with the cursor on it.
C14_Witness ==
    /\ status = "running"
    /\ rows # <<>>
    /\ rows[Len(rows)].idx >= maxRows
    /\ table.rows = rows
    /\ table.cursor = Len(rows) - 1
    /\ currentRowOffset = maxRows + 1

\* A key other than exit and quit, taken in the table view while an open
\* is loading.
KeyWhileLoading ==
    /\ viewState = TableView
    /\ isLoading
    /\ \E key \in Keys \ {"q", "esc", "ctrl+d"} : KeyMsg(key)

\* C15: while the table view is loading, a key other than q / esc / ctrl+d
\* changes nothing of the model and issues no command.
C15_LoadingIgnoresKeys ==
    [][KeyWhileLoading => UNCHANGED <<modelVars, cmds>>]_vars

\* C16: the view state leaves the table view only by an exit key (q / esc);
\* the result of a scan that arrives in the table view does not move it.
C16_TableLeftOnlyByExit ==
    [][(viewState = TableView /\ viewState' # TableView) => ExitInTable]_vars

\* The files whose handle is open.
OpenHandles == {h \in DOMAIN handles : handles[h].open}

\* C17: at most one file is open at any time, and outside the table view
\* none is open and the model holds no reader and no file.
C17_OneHandleOnlyInTable ==
    status = "running" =>
        /\ Cardinality(OpenHandles) <= 1
        /\ viewState # TableView =>
              /\ OpenHandles = {}
              /\ parquetReader = NilHandle
              /\ parquetFile = NilHandle

\* loadParquetData ends in this step with an error, having opened the file.
LoadFailsAfterOpen ==
    /\ Len(handles') = Len(handles) + 1
    /\ \A m \in BagToSet(msgs') : m.handle # Len(handles')

\* The Update of a parquetDataMsg that carries an error.
OpenFails(m) ==
    /\ status = "running"
    /\ m.type = "data"
    /\ m.err # NoError
    /\ msgs' = msgs (-) SetToBag({m})
    /\ RecvData(m)

\* An open that fails after the file was opened has stopped its reader and
\* closed its file when it returns.
FailedOpenReleases ==
    [][LoadFailsAfterOpen => /\ ~handles'[Len(handles')].open
                             /\ ~handles'[Len(handles')].live]_vars

\* The error result of an open carries no reader and no file.
ErrorCarriesNoHandle ==
    \A m \in BagToSet(msgs) : (m.type = "data" /\ m.err # NoError) => m.handle = NilHandle

\* C18: an open that fails after the file was opened stops the reader and
\* closes the file before its error result is delivered, the result carries
\* no handle, and once it is consumed the model holds no open file or live
\* reader.
C18_FailedOpenLeavesNothingOpen ==
    [][/\ LoadFailsAfterOpen => /\ ~handles'[Len(handles')].open
                                /\ ~handles'[Len(handles')].live
       /\ \A m \in BagToSet(msgs) :
             OpenFails(m) =>
                 /\ m.handle = NilHandle
                 /\ parquetFile' # NilHandle => ~handles'[parquetFile'].open
                 /\ parquetReader' # NilHandle => ~handles'[parquetReader'].live]_vars

\* C19: in the file list view with candidates listed, the selection is an
\* index of the list, so enter opens a listed file.
C19_SelectionValid ==
    (status = "running" /\ viewState = FileSelectView /\ Len(parquetFiles) > 0)
        => /\ 0 <= selectedFile
           /\ selectedFile < Len(parquetFiles)

\* C20: when the result of a successful open is consumed in the table view,
\* no other task being in flight, the error slot is empty afterwards: an
\* error of an earlier open or advance is not shown with the new rows.
C20_ErrorClearedByOpen ==
    [][\A m \in BagToSet(msgs) :
          (viewState = TableView /\ TasksInFlight = 1 /\ OpenSucceeds(m))
              => error' = NoError]_vars

====
